---- MODULE Spec2Model ----
(***************************************************************************)
(* The streaming import pipeline of ts-cli (ImportCommand.process and the  *)
(* ImportFileFSM it drives): one unit of the source is read, classified by *)
(* the FSM, and the returned FSMCall is invoked before the next unit is    *)
(* read; at end of stream clearBuffer() is invoked once.                   *)
(*                                                                         *)
(* Go strings are sequences of one-character strings, so that HasPrefix,   *)
(* TrimSpace, Split and Join are computed the way the code computes them.  *)
(* Network collaborators (http client, column write client, the request    *)
(* and record builders, the line-protocol parser) answer                   *)
(* nondeterministically.                                                   *)
(***************************************************************************)
EXTENDS Integers, Sequences, FiniteSets, TLC

\* ------------------------------------------------------------------ bounds

\* units (lines or rows) read from the source in one run
MaxUnits == 4
\* largest configured --batch-size
MaxBatch == 2

\* ----------------------------------------------------------------- strings

HasPrefix(s, p) == Len(s) >= Len(p) /\ SubSeq(s, 1, Len(p)) = p

IsSpace(c) == c \in {" ", "\t", "\n", "\r", "\f"}

RECURSIVE TrimLeft(_)
TrimLeft(s) == IF s # <<>> /\ IsSpace(Head(s)) THEN TrimLeft(Tail(s)) ELSE s

RECURSIVE TrimRight(_)
TrimRight(s) ==
    IF s # <<>> /\ IsSpace(s[Len(s)]) THEN TrimRight(SubSeq(s, 1, Len(s) - 1)) ELSE s

TrimSpace(s) == TrimRight(TrimLeft(s))

\* strings.Split(s, sep) for a one-character separator: the pieces between
\* successive separators, Len = number of separators + 1
RECURSIVE SplitFrom(_, _, _)
SplitFrom(s, sep, cur) ==
    IF s = <<>> THEN <<cur>>
    ELSE IF Head(s) = sep THEN <<cur>> \o SplitFrom(Tail(s), sep, <<>>)
    ELSE SplitFrom(Tail(s), sep, Append(cur, Head(s)))

Split(s, sep) == SplitFrom(s, sep, <<>>)

\* strings.Join(elems, sep)
RECURSIVE Join(_, _)
Join(elems, sep) ==
    IF elems = <<>> THEN <<>>
    ELSE IF Len(elems) = 1 THEN elems[1]
    ELSE elems[1] \o sep \o Join(Tail(elems), sep)

\* ------------------------------------------------------------------ tokens

ImportFormatLineProtocol == "line_protocol"
ImportFormatCSV == "csv"

\* ImportTokenDDL and ImportTokenDML without the space after the sharp sign
ImportTokenDDLNoSpace == <<"#","D","D","L">>
ImportTokenDMLNoSpace == <<"#","D","M","L">>

ImportTokenDDL == <<"#"," ","D","D","L">>
ImportTokenDML == <<"#"," ","D","M","L">>
ImportTokenDatabase == <<"#"," ","C","O","N","T","E","X","T","-","D","A","T","A","B","A","S","E",":">>
ImportTokenRetentionPolicy == <<"#"," ","C","O","N","T","E","X","T","-","R","E","T","E","N","T","I","O","N","-","P","O","L","I","C","Y",":">>
Autogen == <<"a","u","t","o","g","e","n">>

ImportStateDDL == "DDL"
ImportStateDML == "DML"

\* ------------------------------------------------------------------ errors

\* a Go error value: Nil, or a message with the column name or response code
\* it was formatted with
Nil == [msg |-> "", col |-> <<>>, code |-> 0]
Error(m) == [msg |-> m, col |-> <<>>, code |-> 0]
ErrorCol(m, c) == [msg |-> m, col |-> c, code |-> 0]
ErrorCode(m, c) == [msg |-> m, col |-> <<>>, code |-> c]

\* ------------------------------------------------------- inputs of the run

\* lines of a line-protocol source, each as ReadBytes('\n') returns it
LineDDL == <<"#"," ","D","D","L","\n">>
LineDML == <<"#"," ","D","M","L","\n">>
LineDatabase == <<"#"," ","C","O","N","T","E","X","T","-","D","A","T","A","B","A","S","E",":"," ","d","b","0","\n">>
LineDatabaseEmpty == <<"#"," ","C","O","N","T","E","X","T","-","D","A","T","A","B","A","S","E",":","\n">>
LineRetentionPolicy == <<"#"," ","C","O","N","T","E","X","T","-","R","E","T","E","N","T","I","O","N","-","P","O","L","I","C","Y",":"," ","r","p","1","\n">>
LineComment == <<"#"," ","n","o","t","e","\n">>
LineBlank == <<" ","\n">>
LinePoint == <<"c","p","u",",","h","o","s","t","=","a"," ","v","a","l","u","e","=","1"," ","1","\n">>

Lines == {LineDDL, LineDML, LineDatabase, LineDatabaseEmpty,
          LineRetentionPolicy, LineComment, LineBlank, LinePoint}

Db0 == <<"d","b","0">>
Rp1 == <<"r","p","1">>
M0 == <<"m","0">>

\* What the collaborators answer during one FSMCall: whether
\* NewWriteRequestBuilder, Parse, NewRecordBuilder and Build succeed, whether
\* the http client's call (query or textual write) succeeds, and the column
\* write's answer (an error with no response, or a response code).
WriteAnswers == {"err", "0", "1", "2", "3"}
AllGood == [nb |-> TRUE, parse |-> TRUE, rb |-> TRUE, build |-> TRUE,
            http |-> TRUE, write |-> "0"]
\* answers to an FSMCall that only uses the http client
HttpOutcomes == {[AllGood EXCEPT !.http = b] : b \in BOOLEAN}
\* answers to a threshold column write, which returns at its first error: the
\* stage that fails, or the answer of the write
ColumnOutcomes ==
    {[AllGood EXCEPT !.nb = FALSE], [AllGood EXCEPT !.parse = FALSE],
     [AllGood EXCEPT !.rb = FALSE], [AllGood EXCEPT !.build = FALSE]}
    \cup {[AllGood EXCEPT !.write = w] : w \in WriteAnswers}
\* ------------------------------------------------------------------- state

VARIABLES
    cfg,               \* ImportConfig, fixed once the run starts
    pc,                \* where process() is: start, loop, done, failed, crashed
    result,            \* the error process() returned (Nil before it returns)
    state,             \* ImportFileFSM.state
    database,          \* ImportFileFSM.database
    retentionPolicy,   \* ImportFileFSM.retentionPolicy
    measurement,       \* ImportFileFSM.measurement
    tagMap,            \* ImportFileFSM.tagMap: name -> FieldPos
    fieldMap,          \* ImportFileFSM.fieldMap: name -> FieldPos
    timeField,         \* ImportFileFSM.timeField
    batchLPBuffer,     \* ImportFileFSM.batchLPBuffer
    batchPointBuffer,  \* ImportFileFSM.batchPointBuffer
    builderEntities,   \* the process-wide registry: builder name -> builder
    fieldsPerRecord,   \* csv.Reader.FieldsPerRecord (0 until the first row)
    nread,             \* units read so far
    calls,             \* history: every query and write call issued, in order
    lpGhost,           \* history: for each buffered line, its unit number and
                       \* the database / retention policy when it was buffered
    ptGhost,           \* the same for each buffered point
    handled,           \* history: unit numbers of the data lines and rows whose
                       \* FSMCall passed its Context checks
    last,              \* history: what the latest driver step did
    source             \* the file being read and the reader's position in it,
                       \* for the runs that read a given file (NoSource for
                       \* the runs whose units are drawn one by one)

vars == <<cfg, pc, result, state, database, retentionPolicy, measurement, tagMap,
          fieldMap, timeField, batchLPBuffer, batchPointBuffer, builderEntities,
          fieldsPerRecord, nread, calls, lpGhost, ptGhost, handled, last, source>>

FieldPosZero == [Name |-> <<>>, Pos |-> 0]

\* BuilderName keyed by the database alone
BuilderNameDatabaseOnly(db, rp) == db

\* "database.retentionPolicy", the registry key
BuilderName(db, rp) == db \o <<".">> \o rp

\* a WriteRequestBuilder (nil when NewWriteRequestBuilder failed)
Builder(db, rp, ok) == [database |-> db, retentionPolicy |-> rp, valid |-> ok]

Call(op, db, rp, payload, items) ==
    [op |-> op, db |-> db, rp |-> rp, payload |-> payload, items |-> items]

CodeOf(w) == CASE w = "0" -> 0 [] w = "1" -> 1 [] w = "2" -> 2 [] OTHER -> 3

\* ResponseError with code 1 taken for a success
ResponseErrorPartialIgnored(c) ==
    CASE c \in {0, 1} -> Nil
      [] c = 2 -> ErrorCode("write failed, code: %d, write failure", c)
      [] OTHER -> ErrorCode("unexpected response code: %d", c)

\* the response.Code switch of the threshold flushes
ResponseError(c) ==
    CASE c = 0 -> Nil
      [] c = 1 -> ErrorCode("write failed, code: %d, partial write failure", c)
      [] c = 2 -> ErrorCode("write failed, code: %d, write failure", c)
      [] OTHER -> ErrorCode("unexpected response code: %d", c)

\* the response.Code switch of clearBuffer, whose err is nil when it is reached
ClearBufferResponseError(c) ==
    CASE c = 0 -> Nil
      [] c = 1 -> ErrorCode("%!w(<nil>)\nwrite failed, code: %d, partial write failure", c)
      [] c = 2 -> ErrorCode("%!w(<nil>)\nwrite failed, code: %d, write failure", c)
      [] OTHER -> ErrorCode("%!w(<nil>)\nunexpected response code: %d", c)

\* ClearSlice with the deferred clear left out
ClearSliceKept(buffer) == buffer

\* buffer[:0], what the deferred clear of a flush leaves in a buffer
ClearSlice(buffer) == SubSeq(buffer, 1, 0)

\* what one FSMCall did: the buffers and registry it leaves, the calls it
\* issued with what each answered, the error it returned, whether it panicked,
\* and whether it was a flush attempt (none, threshold, final)
Effect(lp, lpg, pt, ptg, reg, cs, res, err, crash, flush) ==
    [lp |-> lp, lpg |-> lpg, pt |-> pt, ptg |-> ptg, reg |-> reg, calls |-> cs,
     res |-> res, err |-> err, crash |-> crash, flush |-> flush]

\* The column write of a threshold flush, from the registry lookup to the
\* response switch; every error returns at once.  The records are built from
\* payload, parsed first when the payload is line-protocol text.
ColumnWrite(reg, db, rp, payload, items, parses, o) ==
    LET name == BuilderName(db, rp)
        known == name \in DOMAIN reg
        reg1 == IF known THEN reg ELSE (name :> Builder(db, rp, TRUE)) @@ reg
        builder == reg1[name]
        call == Call("column", builder.database, builder.retentionPolicy, payload, items)
        out(r, cs, res, err, crash) == [reg |-> r, calls |-> cs, res |-> res,
                                        err |-> err, crash |-> crash]
    IN  IF ~known /\ ~o.nb
          THEN out(reg, <<>>, <<>>, Error("new write request builder failed"), FALSE)
        ELSE IF parses /\ ~o.parse
          THEN out(reg1, <<>>, <<>>, Error("parse line protocol failed"), FALSE)
        ELSE IF Len(items) > 0 /\ ~o.rb
          THEN out(reg1, <<>>, <<>>, Error("new record builder failed"), FALSE)
        ELSE IF ~builder.valid
          THEN out(reg1, <<>>, <<>>, Nil, TRUE)
        ELSE IF ~o.build
          THEN out(reg1, <<>>, <<>>, Error("build write request failed"), FALSE)
        ELSE IF o.write = "err"
          THEN out(reg1, <<call>>, <<o.write>>, Error("column write failed"), FALSE)
        ELSE out(reg1, <<call>>, <<o.write>>, ResponseError(CodeOf(o.write)), FALSE)

\* FSMCallEmpty throwing away what is buffered
FSMCallEmptyClearing ==
    Effect(<<>>, <<>>, <<>>, <<>>, builderEntities, <<>>, <<>>, Nil, FALSE, "none")

\* an FSMCall that does nothing and returns nil
FSMCallEmpty ==
    Effect(batchLPBuffer, lpGhost, batchPointBuffer, ptGhost, builderEntities,
           <<>>, <<>>, Nil, FALSE, "none")

\* FSMCallError losing its error
FSMCallErrorDropped(err) == FSMCallEmpty

\* an FSMCall that returns err and touches nothing
FSMCallError(err) ==
    Effect(batchLPBuffer, lpGhost, batchPointBuffer, ptGhost, builderEntities,
           <<>>, <<>>, err, FALSE, "none")

\* AppendLine putting the new element in front
PrependLine(buffer, data) == <<data>> \o buffer

\* AppendLine storing the element twice
AppendLineTwice(buffer, data) == buffer \o <<data, data>>

\* append(fsm.batchLPBuffer, data)
AppendLine(buffer, data) == Append(buffer, data)

\* the FSMCall returned for a data line (closure of processLineProtocol)
LineProtocolData(data, idx, o) ==
    IF database = <<>>
      THEN FSMCallError(Error("database is required, make sure # CONTEXT-DATABASE: token is exist"))
    ELSE IF Len(batchLPBuffer) < cfg.BatchSize
      THEN Effect(AppendLine(batchLPBuffer, data),
                  AppendLine(lpGhost, [idx |-> idx, db |-> database, rp |-> retentionPolicy]),
                  batchPointBuffer, ptGhost, builderEntities, <<>>, <<>>, Nil, FALSE,
                  "none")
    ELSE LET lines == Join(batchLPBuffer, <<"\n">>)
         IN  IF cfg.ColumnWrite
               THEN LET w == ColumnWrite(builderEntities, database, retentionPolicy,
                                         lines, lpGhost, TRUE, o)
                    IN  Effect(ClearSlice(batchLPBuffer), ClearSlice(lpGhost),
                               batchPointBuffer, ptGhost, w.reg, w.calls,
                               w.res, w.err, w.crash, "threshold")
               ELSE Effect(ClearSlice(batchLPBuffer), ClearSlice(lpGhost),
                           batchPointBuffer, ptGhost, builderEntities,
                           <<Call("write", database, retentionPolicy, lines, lpGhost)>>,
                           <<IF o.http THEN "ok" ELSE "err">>,
                           IF o.http THEN Nil ELSE Error("write failed"), FALSE,
                           "threshold")

\* ExecuteDDL sending nothing
ExecuteDDLSkipped(data, o) == FSMCallEmpty

\* the FSMCall returned for a schema line: one control-command query
ExecuteDDL(data, o) ==
    Effect(batchLPBuffer, lpGhost, batchPointBuffer, ptGhost, builderEntities,
           <<Call("query", <<>>, <<>>, data, <<>>)>>,
           <<IF o.http THEN "ok" ELSE "err">>,
           IF o.http THEN Nil ELSE Error("execute ddl failed"), FALSE, "none")

\* processLineProtocol followed by the invocation of the FSMCall it returns:
\* the FSM fields it leaves, the kind of unit it saw, and the call's effect
ProcessLineProtocol(data, idx, o) ==
    LET step(k, st, db, rp, eff) ==
            [kind |-> k, state |-> st, database |-> db, retentionPolicy |-> rp,
             eff |-> eff]
    IN  IF HasPrefix(data, ImportTokenDDL)
          THEN step("ddl", ImportStateDDL, database, retentionPolicy, FSMCallEmpty)
        ELSE IF HasPrefix(data, ImportTokenDML)
          THEN step("dml", ImportStateDML, database, Autogen, FSMCallEmpty)
        ELSE IF state = ImportStateDDL
          THEN IF TrimSpace(data) = <<>>
                 THEN step("blank", state, database, retentionPolicy, FSMCallEmpty)
                 ELSE step("schema", state, database, retentionPolicy,
                           ExecuteDDL(TrimSpace(data), o))
        ELSE IF HasPrefix(data, ImportTokenDatabase)
          THEN step("database", state, TrimSpace(Split(data, ":")[2]), retentionPolicy,
                    FSMCallEmpty)
        ELSE IF HasPrefix(data, ImportTokenRetentionPolicy)
          THEN step("retention", state, database, TrimSpace(Split(data, ":")[2]),
                    FSMCallEmpty)
        ELSE IF HasPrefix(data, <<"#">>)
          THEN step("comment", state, database, retentionPolicy, FSMCallEmpty)
        ELSE IF TrimSpace(data) = <<>>
          THEN step("blank", state, database, retentionPolicy, FSMCallEmpty)
        ELSE step("data", state, database, retentionPolicy,
                  LineProtocolData(TrimSpace(data), idx, o))

\* clearBuffer sending nothing and keeping what is buffered
ClearBufferSkipped(o) ==
    Effect(batchLPBuffer, lpGhost, batchPointBuffer, ptGhost, builderEntities,
           <<>>, <<>>, Nil, FALSE, "final")

\* clearBuffer sending the text-line buffer without testing its length
ClearBufferUnguarded(o) ==
    Effect(ClearSlice(batchLPBuffer), ClearSlice(lpGhost), batchPointBuffer, ptGhost,
           builderEntities,
           <<Call("write", database, retentionPolicy, Join(batchLPBuffer, <<"\n">>),
                  lpGhost)>>,
           <<IF o.http THEN "ok" ELSE "err">>, Nil, FALSE, "final")

\* clearBuffer's FSMCall.  Its err is declared nil and only ever assigned
\* under `if err != nil`, so no collaborator's error reaches it: a failed
\* textual write is dropped, a failed builder is registered as nil and panics
\* when used, a failed Build leaves a nil request that is sent all the same
\* (a write call that carries no record), and a failed column write leaves a
\* nil response whose Code is read.  The deferred clears run on return and on
\* panic alike.
ClearBuffer(o) ==
    LET lpCalls == IF batchLPBuffer # <<>>
                     THEN <<Call("write", database, retentionPolicy,
                                 Join(batchLPBuffer, <<"\n">>), lpGhost)>>
                     ELSE <<>>
        lpRes == IF batchLPBuffer # <<>> THEN <<IF o.http THEN "ok" ELSE "err">> ELSE <<>>
        name == BuilderName(database, retentionPolicy)
        known == name \in DOMAIN builderEntities
        reg1 == IF known THEN builderEntities
                ELSE (name :> Builder(database, retentionPolicy, o.nb)) @@ builderEntities
        builder == reg1[name]
        call == IF o.build
                  THEN Call("column", builder.database, builder.retentionPolicy,
                            batchPointBuffer, ptGhost)
                  ELSE Call("column", builder.database, builder.retentionPolicy,
                            <<>>, <<>>)
        lp == ClearSlice(batchLPBuffer)
        lpg == ClearSlice(lpGhost)
        pt == ClearSlice(batchPointBuffer)
        ptg == ClearSlice(ptGhost)
    IN  IF batchPointBuffer = <<>>
          THEN Effect(lp, lpg, batchPointBuffer, ptGhost, builderEntities,
                      lpCalls, lpRes, Nil, FALSE, "final")
        ELSE IF ~o.rb \/ ~builder.valid
          THEN Effect(lp, lpg, pt, ptg, reg1, lpCalls, lpRes, Nil, TRUE, "final")
        ELSE IF o.write = "err"
          THEN Effect(lp, lpg, pt, ptg, reg1, lpCalls \o <<call>>,
                      lpRes \o <<o.write>>, Nil, TRUE, "final")
        ELSE Effect(lp, lpg, pt, ptg, reg1, lpCalls \o <<call>>,
                    lpRes \o <<o.write>>, ClearBufferResponseError(CodeOf(o.write)),
                    FALSE, "final")

\* --------------------------------------------------------------------- CSV

ColTime == <<"t","i","m","e">>
ColHost == <<"h","o","s","t">>
ColValue == <<"v","a","l","u","e">>

\* rows of a CSV source as csv.Reader returns them (comment lines skipped)
Headers == {<<ColTime, ColHost, ColValue>>, <<ColTime, ColValue>>,
            <<ColHost, ColValue>>, <<ColTime, ColHost>>}
Rows == {<<<<"1","0","0">>, <<"s","e","r","v","e","r","A">>, <<"4","2">>>>,
         <<<<"-","7">>, <<"b">>, <<"x">>>>,
         <<<<"1","0","0">>, <<"4","2">>>>}

Range(f) == {f[i] : i \in DOMAIN f}

Digits == <<"0","1","2","3","4","5","6","7","8","9">>
IsDigit(c) == \E d \in DOMAIN Digits : Digits[d] = c
DigitValue(c) == (CHOOSE d \in DOMAIN Digits : Digits[d] = c) - 1

RECURSIVE ParseUint(_, _)
ParseUint(s, acc) ==
    IF s = <<>> THEN acc ELSE ParseUint(Tail(s), acc * 10 + DigitValue(Head(s)))

\* StringToInt64 taking a sign for a syntax error
StringToInt64NoSign(s) ==
    IF s = <<>> \/ \E i \in DOMAIN s : ~IsDigit(s[i]) THEN 0 ELSE ParseUint(s, 0)

\* strconv.ParseInt(s, 10, 64) with its error discarded: 0 on a syntax error
\* (empty, a lone sign, a non-digit).  The modelled cells are short, so the
\* value is far below 2^63 and the range-error clamp is not reached.
StringToInt64(s) ==
    LET neg == s # <<>> /\ Head(s) = "-"
        body == IF s # <<>> /\ Head(s) \in {"+", "-"} THEN Tail(s) ELSE s
    IN  IF body = <<>> \/ \E i \in DOMAIN body : ~IsDigit(body[i]) THEN 0
        ELSE IF neg THEN 0 - ParseUint(body, 0) ELSE ParseUint(body, 0)

\* ResolveHeader recording the 1-based number of each column
ResolveHeaderFromOne(data, idx, m) ==
    LET pos(name, old) ==
            IF \E i \in DOMAIN data : data[i] = name
              THEN [Name |-> name, Pos |-> CHOOSE i \in DOMAIN data : data[i] = name]
              ELSE old
    IN  [tagMap |-> [t \in DOMAIN m.tagMap |-> pos(t, m.tagMap[t])],
         fieldMap |-> [f \in DOMAIN m.fieldMap |->
                         IF f \in DOMAIN m.tagMap THEN m.fieldMap[f]
                         ELSE pos(f, m.fieldMap[f])],
         timeField |-> IF cfg.TimeField \in DOMAIN m.tagMap \cup DOMAIN m.fieldMap
                         THEN m.timeField ELSE pos(cfg.TimeField, m.timeField)]

\* the header loop of processCSV: columns idx.. of data, in order
RECURSIVE ResolveHeader(_, _, _)
ResolveHeader(data, idx, m) ==
    IF idx >= Len(data) THEN m
    ELSE LET datum == data[idx + 1]
             pos == [Name |-> datum, Pos |-> idx]
         IN  IF datum \in DOMAIN m.tagMap
               THEN ResolveHeader(data, idx + 1,
                                  [m EXCEPT !.tagMap = [m.tagMap EXCEPT ![datum] = pos]])
             ELSE IF datum \in DOMAIN m.fieldMap
               THEN ResolveHeader(data, idx + 1,
                                  [m EXCEPT !.fieldMap = [m.fieldMap EXCEPT ![datum] = pos]])
             ELSE IF cfg.TimeField = datum
               THEN ResolveHeader(data, idx + 1, [m EXCEPT !.timeField = pos])
             ELSE ResolveHeader(data, idx + 1, m)

\* the first configured name, in order, that resolved to no column
Unresolved(names, m) == {i \in DOMAIN names : m[names[i]].Name = <<>>}
FirstUnresolved(names, m) ==
    names[CHOOSE i \in Unresolved(names, m) : \A j \in Unresolved(names, m) : i <= j]

\* the FSMCall returned for the first row (state DDL): the Context is filled
\* from the configuration and the header is resolved
CSVHeader(data) ==
    LET m0 == [tagMap |-> [t \in Range(cfg.Tags) |-> FieldPosZero],
               fieldMap |-> [f \in Range(cfg.Fields) |-> FieldPosZero],
               timeField |-> timeField]
        m == ResolveHeader(data, 0, m0)
        err == IF Unresolved(cfg.Fields, m.fieldMap) # {}
                 THEN ErrorCol("field name not in csv header ",
                               FirstUnresolved(cfg.Fields, m.fieldMap))
               ELSE IF Unresolved(cfg.Tags, m.tagMap) # {}
                 THEN ErrorCol("tag name not in csv header ",
                               FirstUnresolved(cfg.Tags, m.tagMap))
               ELSE IF m.timeField.Name = <<>>
                 THEN ErrorCol("time field name not in csv header ", cfg.TimeField)
               ELSE Nil
    IN  [kind |-> "header", state |-> ImportStateDML, database |-> cfg.Database,
         retentionPolicy |-> cfg.RetentionPolicy, measurement |-> cfg.Measurement,
         tagMap |-> m.tagMap, fieldMap |-> m.fieldMap, timeField |-> m.timeField,
         eff |-> FSMCallError(err)]

\* the opengemini.Point built from a data row
Point(data) ==
    [Measurement |-> cfg.Measurement,
     Timestamp |-> StringToInt64(data[timeField.Pos + 1]),
     Tags |-> [n \in {tagMap[t].Name : t \in DOMAIN tagMap} |->
                 data[tagMap[CHOOSE t \in DOMAIN tagMap : tagMap[t].Name = n].Pos + 1]],
     Fields |-> [n \in {fieldMap[f].Name : f \in DOMAIN fieldMap} |->
                   data[fieldMap[CHOOSE f \in DOMAIN fieldMap : fieldMap[f].Name = n].Pos + 1]]]

\* the FSMCall returned for a later row (state DML)
CSVData(data, idx, o) ==
    LET rp == IF retentionPolicy = <<>> THEN Autogen ELSE retentionPolicy
        step(p, eff) ==
            [kind |-> "row", state |-> state, database |-> database,
             retentionPolicy |-> p, measurement |-> measurement, tagMap |-> tagMap,
             fieldMap |-> fieldMap, timeField |-> timeField, eff |-> eff]
    IN  IF database = <<>>
          THEN step(retentionPolicy, FSMCallError(Error("database is required")))
        ELSE IF cfg.Measurement = <<>>
          THEN step(rp, FSMCallError(Error("measurement is required")))
        ELSE IF Len(cfg.Fields) = 0 \/ DOMAIN fieldMap = {}
          THEN step(rp, FSMCallError(Error("--fields is required or field name not in csv header")))
        ELSE IF Len(batchLPBuffer) < cfg.BatchSize
          THEN step(rp, Effect(batchLPBuffer, lpGhost,
                               Append(batchPointBuffer, Point(data)),
                               Append(ptGhost, [idx |-> idx, db |-> database, rp |-> rp]),
                               builderEntities, <<>>, <<>>, Nil, FALSE, "none"))
        ELSE LET w == ColumnWrite(builderEntities, database, rp, batchPointBuffer,
                                  ptGhost, FALSE, o)
             IN  step(rp, Effect(batchLPBuffer, lpGhost, ClearSlice(batchPointBuffer),
                                 ClearSlice(ptGhost), w.reg, w.calls,
                                 w.res, w.err, w.crash, "threshold"))

\* ProcessCSV taking the first row for a data row
ProcessCSVNoHeader(data, idx, o) == CSVData(data, idx, o)

\* processCSV followed by the invocation of the FSMCall it returns
ProcessCSV(data, idx, o) ==
    IF Len(data) = 0
      THEN [kind |-> "empty", state |-> state, database |-> database,
            retentionPolicy |-> retentionPolicy, measurement |-> measurement,
            tagMap |-> tagMap, fieldMap |-> fieldMap, timeField |-> timeField,
            eff |-> FSMCallEmpty]
    ELSE IF state = ImportStateDDL THEN CSVHeader(data)
    ELSE CSVData(data, idx, o)

\* ------------------------------------------------------------------ driver

LineProtocolConfigs ==
    [Format : {ImportFormatLineProtocol}, ColumnWrite : BOOLEAN,
     BatchSize : 0..MaxBatch, Database : {<<>>}, RetentionPolicy : {<<>>},
     Measurement : {<<>>}, Tags : {<<>>}, Fields : {<<>>}, TimeField : {<<>>}]

\* a complete CSV configuration, and the ones that differ from it in one flag
\* (the last one names host as a tag and as a field)
CSVConfig == [Format |-> ImportFormatCSV, ColumnWrite |-> FALSE, BatchSize |-> 1,
              Database |-> Db0, RetentionPolicy |-> <<>>, Measurement |-> M0,
              Tags |-> <<ColHost>>, Fields |-> <<ColValue>>, TimeField |-> ColTime]
CSVConfigs ==
    {[c EXCEPT !.BatchSize = b] :
        b \in 0..MaxBatch,
        c \in {CSVConfig, [CSVConfig EXCEPT !.Database = <<>>],
               [CSVConfig EXCEPT !.RetentionPolicy = Rp1],
               [CSVConfig EXCEPT !.Measurement = <<>>],
               [CSVConfig EXCEPT !.Tags = <<>>],
               [CSVConfig EXCEPT !.Fields = <<>>],
               [CSVConfig EXCEPT !.Fields = <<ColValue, ColHost>>]}}

UnknownFormatConfigs ==
    [Format : {"jsoni"}, ColumnWrite : {FALSE}, BatchSize : {MaxBatch},
     Database : {<<>>}, RetentionPolicy : {<<>>}, Measurement : {<<>>},
     Tags : {<<>>}, Fields : {<<>>}, TimeField : {<<>>}]

Configs == LineProtocolConfigs \cup CSVConfigs \cup UnknownFormatConfigs

Step(kind, idx, eff) ==
    [kind |-> kind, idx |-> idx, err |-> eff.err, res |-> eff.res,
     flush |-> eff.flush, ncalls |-> Len(eff.calls)]

\* the FSMCall buffered its unit or went on to flush instead
Accepted(eff) ==
    eff.flush = "threshold" \/ Len(eff.lp) > Len(batchLPBuffer)
        \/ Len(eff.pt) > Len(batchPointBuffer)

NoStep == [kind |-> "none", idx |-> 0, err |-> Nil, res |-> <<>>, flush |-> "none",
           ncalls |-> 0]

\* Continue with the error of an FSMCall ending the scan
ContinueReturns(eff) ==
    IF eff.crash THEN "crashed" ELSE IF eff.err # Nil THEN "failed" ELSE "loop"

\* after the FSMCall of a unit: its error, if any, is logged and the loop
\* turns again (`continue`); only a panic leaves the loop
Continue(eff) == IF eff.crash THEN "crashed" ELSE "loop"

NoSource == [lines |-> <<>>, pos |-> 0]

\* ImportCommand.Run: a fresh ImportFileFSM, an empty registry; the
\* configuration and the file are fixed by what starts from it
Fresh ==
    /\ pc = "start"
    /\ result = Nil
    /\ state = ImportStateDDL
    /\ database = <<>>
    /\ retentionPolicy = <<>>
    /\ measurement = <<>>
    /\ tagMap = <<>>
    /\ fieldMap = <<>>
    /\ timeField = FieldPosZero
    /\ batchLPBuffer = <<>>
    /\ batchPointBuffer = <<>>
    /\ builderEntities = <<>>
    /\ fieldsPerRecord = 0
    /\ nread = 0
    /\ calls = <<>>
    /\ lpGhost = <<>>
    /\ ptGhost = <<>>
    /\ handled = {}
    /\ last = NoStep

Init ==
    /\ cfg \in Configs
    /\ source = NoSource
    /\ Fresh

fsmVars == <<state, database, retentionPolicy, measurement, tagMap, fieldMap,
             timeField, batchLPBuffer, batchPointBuffer, builderEntities, lpGhost,
             ptGhost>>

\* process(): open the file and switch on the format
Open ==
    /\ pc = "start"
    /\ \E opened \in BOOLEAN :
          IF ~opened
            THEN pc' = "failed" /\ result' = Error("open file failed")
          ELSE IF cfg.Format \in {ImportFormatLineProtocol, ImportFormatCSV}
            THEN pc' = "loop" /\ result' = Nil
          ELSE pc' = "failed" /\ result' = Error("unknown --format")
    /\ UNCHANGED <<cfg, fsmVars, fieldsPerRecord, nread, calls, handled, last,
                   source>>

\* answers to the FSMCall of a line, those of the collaborators it can reach
\* from the state the line is read in: the http client for a query in state
\* DDL, none while the buffer is below BatchSize, and for a threshold flush
\* the http client or, with --column-write, the column write chain
LineOutcomes ==
    IF state = ImportStateDDL THEN HttpOutcomes
    ELSE IF Len(batchLPBuffer) < cfg.BatchSize THEN {AllGood}
    ELSE IF cfg.ColumnWrite THEN ColumnOutcomes
    ELSE HttpOutcomes

\* answers to the FSMCall of a row: the column write chain when the row can
\* reach the threshold flush, none otherwise
RowOutcomes ==
    IF state = ImportStateDML /\ ~(Len(batchLPBuffer) < cfg.BatchSize)
      THEN ColumnOutcomes
      ELSE {AllGood}

\* the body of the line-protocol loop for a line the reader returned: the
\* line is classified and the FSMCall it yields is invoked
LineStep(line, o) ==
    /\ pc = "loop"
    /\ cfg.Format = ImportFormatLineProtocol
    /\ LET r == ProcessLineProtocol(line, nread + 1, o)
       IN  /\ state' = r.state
           /\ database' = r.database
           /\ retentionPolicy' = r.retentionPolicy
           /\ batchLPBuffer' = r.eff.lp
           /\ lpGhost' = r.eff.lpg
           /\ batchPointBuffer' = r.eff.pt
           /\ ptGhost' = r.eff.ptg
           /\ builderEntities' = r.eff.reg
           /\ calls' = calls \o r.eff.calls
           /\ last' = Step(r.kind, nread + 1, r.eff)
           /\ handled' = IF Accepted(r.eff) THEN handled \cup {nread + 1} ELSE handled
           /\ pc' = Continue(r.eff)
    /\ nread' = nread + 1
    /\ UNCHANGED <<cfg, result, measurement, tagMap, fieldMap, timeField,
                   fieldsPerRecord>>

\* one turn of the line-protocol loop, the line being any of Lines
ReadLine(line, o) ==
    /\ nread < MaxUnits
    /\ LineStep(line, o)
    /\ UNCHANGED source

\* one turn of the CSV loop: a row is read, classified, and the FSMCall it
\* yields is invoked.  The reader fixes the field count with the first row.
ReadRow(row, o) ==
    /\ pc = "loop"
    /\ cfg.Format = ImportFormatCSV
    /\ nread < MaxUnits
    /\ fieldsPerRecord \in {0, Len(row)}
    /\ fieldsPerRecord' = Len(row)
    /\ LET r == ProcessCSV(row, nread + 1, o)
       IN  /\ state' = r.state
           /\ database' = r.database
           /\ retentionPolicy' = r.retentionPolicy
           /\ measurement' = r.measurement
           /\ tagMap' = r.tagMap
           /\ fieldMap' = r.fieldMap
           /\ timeField' = r.timeField
           /\ batchLPBuffer' = r.eff.lp
           /\ lpGhost' = r.eff.lpg
           /\ batchPointBuffer' = r.eff.pt
           /\ ptGhost' = r.eff.ptg
           /\ builderEntities' = r.eff.reg
           /\ calls' = calls \o r.eff.calls
           /\ last' = Step(r.kind, nread + 1, r.eff)
           /\ handled' = IF Accepted(r.eff) THEN handled \cup {nread + 1} ELSE handled
           /\ pc' = Continue(r.eff)
    /\ nread' = nread + 1
    /\ UNCHANGED <<cfg, result, source>>

\* a read that fails with an error other than io.EOF is logged and the loop
\* turns again
ReadError ==
    /\ pc = "loop"
    /\ nread < MaxUnits
    /\ nread' = nread + 1
    /\ last' = [NoStep EXCEPT !.kind = "readerror", !.idx = nread + 1]
    /\ UNCHANGED <<cfg, pc, result, fsmVars, fieldsPerRecord, calls, handled,
                   source>>

\* answers to clearBuffer, which goes on after an error: those of the
\* collaborators it calls for the buffers it finds
ClearOutcomes ==
    {o \in [nb : BOOLEAN, parse : {TRUE}, rb : BOOLEAN, build : BOOLEAN,
            http : BOOLEAN, write : WriteAnswers] :
        /\ batchLPBuffer = <<>> => o.http
        /\ batchPointBuffer = <<>> => o.nb /\ o.rb /\ o.build /\ o.write = "0"}

\* after the loop: clearBuffer()'s FSMCall is invoked once and process()
\* returns nil
EOFStep(o) ==
    /\ pc = "loop"
    /\ LET eff == ClearBuffer(o)
       IN  /\ batchLPBuffer' = eff.lp
           /\ lpGhost' = eff.lpg
           /\ batchPointBuffer' = eff.pt
           /\ ptGhost' = eff.ptg
           /\ builderEntities' = eff.reg
           /\ calls' = calls \o eff.calls
           /\ last' = Step("eof", nread + 1, eff)
           /\ pc' = IF eff.crash THEN "crashed" ELSE "done"
    /\ result' = Nil
    /\ UNCHANGED <<cfg, state, database, retentionPolicy, measurement, tagMap,
                   fieldMap, timeField, fieldsPerRecord, nread, handled>>

\* io.EOF: the loop ends
ReadEOF(o) == EOFStep(o) /\ UNCHANGED source

Next ==
    \/ Open
    \/ \E line \in Lines, o \in LineOutcomes : ReadLine(line, o)
    \/ \E row \in Headers \cup Rows, o \in RowOutcomes : ReadRow(row, o)
    \/ ReadError
    \/ \E o \in ClearOutcomes : ReadEOF(o)

Spec == Init /\ [][Next]_vars

\* ------------------------------------------------------------------ claims

LineProtocolRun == cfg.Format = ImportFormatLineProtocol
CSVRun == cfg.Format = ImportFormatCSV

IsWriteCall(c) == c.op \in {"write", "column"}

\* the places (call, position) where unit i was submitted in a write call
Submissions(i) ==
    {<<k, j>> \in (DOMAIN calls) \X (1..MaxUnits) :
        /\ IsWriteCall(calls[k])
        /\ j \in DOMAIN calls[k].items
        /\ calls[k].items[j].idx = i}

Buffered(i) ==
    \/ \E j \in DOMAIN lpGhost : lpGhost[j].idx = i
    \/ \E j \in DOMAIN ptGhost : ptGhost[j].idx = i

\* the latest step was a flush attempt whose write call failed in transport
WriteFailed == last.flush # "none" /\ \E j \in DOMAIN last.res : last.res[j] = "err"

\* the latest step was a flush attempt whose column write was answered with
\* response code w
Answered(w) ==
    /\ last.flush # "none"
    /\ last.res # <<>>
    /\ calls[Len(calls)].op = "column"
    /\ last.res[Len(last.res)] = w

\* C1: line-protocol import with BatchSize >= 1: a data line handled with a
\* non-empty database is, once its handling ends, in the buffer or in a write
\* call (the line that triggers a threshold flush is not lost), and when the
\* run has completed every such line has been submitted in exactly one write
\* call.
C1_NoDataLineLost ==
    (LineProtocolRun /\ cfg.BatchSize >= 1) =>
        /\ (last.kind = "data" /\ last.idx \in handled) =>
              (Buffered(last.idx) \/ Submissions(last.idx) # {})
        /\ pc = "done" => \A i \in handled : Cardinality(Submissions(i)) = 1

\* the header row left a configured tag, field or the time column unresolved
HeaderUnresolved ==
    /\ CSVRun
    /\ state = ImportStateDML
    /\ \/ Unresolved(cfg.Fields, fieldMap) # {}
       \/ Unresolved(cfg.Tags, tagMap) # {}
       \/ timeField.Name = <<>>

\* C2: CSV import: when a configured tag, field or the time column is absent
\* from the header row, no data row is ever buffered, no column write is
\* issued, and the error the header's FSMCall returns names a missing column.
C2_NoRowAfterUnresolvedHeader ==
    HeaderUnresolved =>
        /\ batchPointBuffer = <<>>
        /\ \A k \in DOMAIN calls : calls[k].op # "column"
        /\ last.kind = "header" =>
              /\ last.err # Nil
              /\ \/ last.err.col \in Range(cfg.Fields) \cup Range(cfg.Tags)
                 \/ last.err.col = cfg.TimeField

\* C3: CSV import with BatchSize >= 1: the record buffer never holds more than
\* BatchSize records.
C3_PointBufferBounded ==
    (CSVRun /\ cfg.BatchSize >= 1) => Len(batchPointBuffer) <= cfg.BatchSize

\* C4: line-protocol import with BatchSize >= 1: the handling of the data line
\* that brings the buffer to BatchSize lines flushes it, so between two units
\* the buffer never holds BatchSize lines waiting for a later line to flush
\* them.
C4_FlushOnBatchSizeth ==
    (LineProtocolRun /\ cfg.BatchSize >= 1 /\ last.kind = "data") =>
        Len(batchLPBuffer) < cfg.BatchSize

\* C5: every write call, textual or column, threshold or final, targets a
\* non-empty database.
C5_WriteDatabaseNonEmpty ==
    \A k \in DOMAIN calls : IsWriteCall(calls[k]) => calls[k].db # <<>>

\* C6: every data line is submitted to the database and retention policy that
\* were in the Context when the line was read.
C6_WrittenUnderReadContext ==
    \A k \in DOMAIN calls :
        IsWriteCall(calls[k]) =>
            \A j \in DOMAIN calls[k].items :
                /\ calls[k].items[j].db = calls[k].db
                /\ calls[k].items[j].rp = calls[k].rp

\* C7: line-protocol import: with --column-write every write call goes through
\* the column write client, without it every write call goes through the
\* textual write client.
C7_WritePathFixed ==
    LineProtocolRun =>
        \A k \in DOMAIN calls :
            IsWriteCall(calls[k]) =>
                calls[k].op = (IF cfg.ColumnWrite THEN "column" ELSE "write")

\* C8: when the write call of a flush fails, the flush's FSMCall returns a
\* non-nil error to the driver.
C8_WriteFailureReturned ==
    WriteFailed => (pc # "crashed" /\ last.err # Nil)

PartialFailure == {"write failed, code: %d, partial write failure",
                   "%!w(<nil>)\nwrite failed, code: %d, partial write failure"}
FullFailure == {"write failed, code: %d, write failure",
                "%!w(<nil>)\nwrite failed, code: %d, write failure"}
UnexpectedCode == {"unexpected response code: %d",
                   "%!w(<nil>)\nunexpected response code: %d"}

\* C9: a column write answered with response code 0 makes the flush return no
\* error; codes 1, 2 and any other make it return an error carrying that code
\* (partial failure, full failure, unexpected code); in each case the driver
\* goes on: back to the loop after a threshold flush, to completion after the
\* final flush.
C9_ResponseCodeHandling ==
    \A w \in WriteAnswers \ {"err"} :
        Answered(w) =>
            /\ w = "0" => last.err = Nil
            /\ w # "0" => (last.err # Nil /\ last.err.code = CodeOf(w))
            /\ w = "1" => last.err.msg \in PartialFailure
            /\ w = "2" => last.err.msg \in FullFailure
            /\ w = "3" => last.err.msg \in UnexpectedCode
            /\ pc = (IF last.flush = "final" THEN "done" ELSE "loop")

\* C9 witness: a threshold flush of a non-empty batch was answered with code 1
\* (partial failure) and the driver is back in its loop
C9_Witness ==
    /\ Answered("1")
    /\ last.flush = "threshold"
    /\ calls[Len(calls)].items # <<>>
    /\ last.err # Nil
    /\ pc = "loop"

\* C10: after a flush attempt, whatever its outcome, the flushed buffer is
\* empty, and no buffered item is ever submitted in two write calls.
C10_FlushConsumesBatch ==
    /\ last.flush = "threshold" =>
          IF LineProtocolRun THEN batchLPBuffer = <<>> ELSE batchPointBuffer = <<>>
    /\ last.flush = "final" => (batchLPBuffer = <<>> /\ batchPointBuffer = <<>>)
    /\ \A i \in 1..MaxUnits : Cardinality(Submissions(i)) <= 1

\* C10 witness: a threshold flush of a non-empty batch returned an error and
\* the batch is gone
C10_Witness ==
    /\ last.flush = "threshold"
    /\ last.err # Nil
    /\ \E i \in handled : i # last.idx /\ ~Buffered(i)
    /\ batchLPBuffer = <<>>

\* unit i is carried by one of the calls issued by the step being taken
SubmittedNow(i) ==
    \E k \in (Len(calls) + 1)..Len(calls') :
        /\ IsWriteCall(calls'[k])
        /\ \E j \in DOMAIN calls'[k].items : calls'[k].items[j].idx = i

\* C11: the step that completes a run is the one forced flush: no flush was
\* forced before it and no step follows it, it leaves both buffers empty, and
\* every line and record that was buffered at end of stream is carried by a
\* write call of that flush, whatever their number.
C11_FinalFlushSubmitsAll ==
    [][/\ last.flush # "final"
       /\ (pc = "loop" /\ pc' = "done") =>
             /\ last'.flush = "final"
             /\ batchLPBuffer' = <<>> /\ batchPointBuffer' = <<>>
             /\ \A j \in DOMAIN lpGhost : SubmittedNow(lpGhost[j].idx)
             /\ \A j \in DOMAIN ptGhost : SubmittedNow(ptGhost[j].idx)]_vars

\* the latest step read a unit and classified it
UnitHandled == last.kind \notin {"none", "readerror", "eof"}

\* C12: whatever error the handling of a unit returned (missing database,
\* failed schema command, failed write, non-zero response code, unresolved
\* header), process() has not returned and the driver is back in its loop,
\* where the next unit is read and handled and where, at end of stream, the
\* final flush runs.
C12_ErrorsNeverStopTheScan ==
    UnitHandled =>
        /\ pc = "loop"
        /\ result = Nil
        /\ ENABLED ReadEOF(AllGood)

\* C12 witness: the FSMCall of the header row (unit 1) returned an error, later
\* rows were read and handled all the same, and the final flush ran
C12_Witness ==
    /\ HeaderUnresolved
    /\ handled # {}
    /\ nread = MaxUnits
    /\ last.kind = "eof"
    /\ pc = "done"

\* C13: process() returns an error only when the file cannot be opened or the
\* format is unknown, and then nothing was read, classified or sent; in every
\* other case, once the final flush has been invoked, process() has returned
\* nil, whatever errors the units and the batches met.
C13_ReturnsErrorOnlyOnOpenOrFormat ==
    /\ result # Nil => pc = "failed"
    /\ pc = "failed" =>
          /\ result.msg \in {"open file failed", "unknown --format"}
          /\ result.msg = "unknown --format" =>
                cfg.Format \notin {ImportFormatLineProtocol, ImportFormatCSV}
          /\ nread = 0 /\ calls = <<>> /\ last = NoStep
          /\ state = ImportStateDDL /\ batchLPBuffer = <<>> /\ batchPointBuffer = <<>>
    /\ last.kind = "eof" => (pc = "done" /\ result = Nil)

\* the text a write call carries for n buffered data lines
LinesText(n) == Join([j \in 1..n |-> TrimSpace(LinePoint)], <<"\n">>)

C15_SchemaMarker ==
    [][ReadLine(LineDDL, AllGood) =>
              /\ state' = ImportStateDDL
              /\ calls' = calls
              /\ last'.err = Nil /\ last'.flush = "none"]_vars

\* C15 witness: a # DDL unit was read in state DML with a line buffered: the
\* state is DDL again and nothing was sent
C15_Witness ==
    /\ last.kind = "ddl"
    /\ state = ImportStateDDL
    /\ batchLPBuffer # <<>>
    /\ last.ncalls = 0

\* C16: in a line-protocol run, reading a unit that begins with # DML leaves
\* the FSM in state DML (Data) whatever the state was and the retention policy
\* at "autogen"; the database, both buffers and the builder registry are
\* unchanged and no call is issued.
C16_DataMarker ==
    [][ReadLine(LineDML, AllGood) =>
              /\ state' = ImportStateDML
              /\ retentionPolicy' = Autogen
              /\ UNCHANGED <<database, batchLPBuffer, batchPointBuffer,
                             builderEntities, calls>>
              /\ last'.err = Nil /\ last'.flush = "none"]_vars

\* C16 witness: a # DML unit was read with a database set and a line buffered:
\* both are still there, the state is DML and the retention policy autogen
C16_Witness ==
    /\ last.kind = "dml"
    /\ state = ImportStateDML
    /\ retentionPolicy = Autogen
    /\ database = Db0
    /\ batchLPBuffer # <<>>
    /\ last.ncalls = 0

\* the text of a line without its final newline (no line of Lines has other
\* leading or trailing blanks, except the blank line itself)
Chomp(line) == SubSeq(line, 1, Len(line) - 1)

\* neither # DDL nor # DML
NonMarkerLines ==
    {line \in Lines : line \notin {LineDDL, LineDML}}

\* C17: in state DDL (Schema), reading a non-marker line that is not blank
\* issues, within the handling of that line, exactly one query whose command is
\* the line without its surrounding blanks, and buffers nothing; reading a
\* blank line issues no call.  (In state DDL only the http client is asked.)
C17_SchemaCommand ==
    [][(state = ImportStateDDL /\ nread' = nread + 1) =>
          \A line \in NonMarkerLines, o \in HttpOutcomes :
              ReadLine(line, o) =>
              /\ UNCHANGED <<batchLPBuffer, batchPointBuffer>>
              /\ IF line = LineBlank
                   THEN calls' = calls
                   ELSE calls' = Append(calls, Call("query", <<>>, <<>>, Chomp(line), <<>>))]_vars

\* C17 witness: a line read in state DDL was sent as one query carrying its
\* trimmed text, and the buffers are empty
C17_Witness ==
    /\ last.kind = "schema"
    /\ last.ncalls = 1
    /\ calls[Len(calls)] = Call("query", <<>>, <<>>, Chomp(LinePoint), <<>>)
    /\ batchLPBuffer = <<>> /\ batchPointBuffer = <<>>

\* answers of the collaborators of clearBuffer: all succeed, each fails alone,
\* each answer of the column write, all fail together
AnyClearOutcomes ==
    {AllGood, [AllGood EXCEPT !.nb = FALSE], [AllGood EXCEPT !.rb = FALSE],
     [AllGood EXCEPT !.build = FALSE], [AllGood EXCEPT !.http = FALSE],
     [nb |-> FALSE, parse |-> TRUE, rb |-> FALSE, build |-> FALSE, http |-> FALSE,
      write |-> "err"]}
    \cup {[AllGood EXCEPT !.write = w] : w \in WriteAnswers}

\* C18: in every state where both buffers are empty, before the end of stream
\* as well as right after the final flush, forcing a flush issues no call,
\* returns no error, does not panic and leaves the buffers and the registry as
\* they are, whatever the collaborators would answer.
C18_FlushOnEmptyIsNoOp ==
    (batchLPBuffer = <<>> /\ batchPointBuffer = <<>>) =>
        \A o \in AnyClearOutcomes :
            LET eff == ClearBuffer(o)
            IN  /\ eff.calls = <<>> /\ eff.res = <<>>
                /\ eff.err = Nil /\ ~eff.crash
                /\ eff.lp = batchLPBuffer /\ eff.pt = batchPointBuffer
                /\ eff.lpg = lpGhost /\ eff.ptg = ptGhost
                /\ eff.reg = builderEntities

\* C18 witness: the final flush was forced on empty buffers in a run that had
\* buffered and flushed lines before: it sent nothing and returned no error
C18_Witness ==
    /\ last.kind = "eof"
    /\ last.ncalls = 0
    /\ last.err = Nil
    /\ \E k \in DOMAIN calls : IsWriteCall(calls[k]) /\ calls[k].items # <<>>
    /\ batchLPBuffer = <<>> /\ batchPointBuffer = <<>>
    /\ pc = "done"

\* the FieldPos of the column of row named name (header columns are distinct)
ColumnPos(row, name) ==
    [Name |-> name, Pos |-> (CHOOSE i \in DOMAIN row : row[i] = name) - 1]

IntegerValue(cell) ==
    CASE cell = <<"1","0","0">> -> 100
      [] cell = <<"-","7">> -> 0 - 7

RejectedUnit ==
    /\ last'.err # Nil
    /\ calls' = calls
    /\ UNCHANGED <<state, database, retentionPolicy, batchLPBuffer,
                   batchPointBuffer, builderEntities>>
    /\ pc' = "loop"

\* C21: a data line (line protocol) or a data row (CSV) handled in state DML
\* while the database is empty makes its FSMCall return an error, is not
\* buffered, issues no call and leaves the buffers, the registry and the
\* Context as they were; the driver is back in its loop.  (The database is
\* tested before any collaborator is asked, so one outcome stands for all.)
C21_EmptyDatabaseRejects ==
    [][(state = ImportStateDML /\ database = <<>> /\ nread' = nread + 1) =>
          /\ ReadLine(LinePoint, AllGood) => RejectedUnit
          /\ \A row \in Headers \cup Rows : ReadRow(row, AllGood) => RejectedUnit]_vars

\* C21 witness: a data line was read in state DML with no database: it was
\* refused, nothing is buffered, nothing was sent, and the driver goes on
C21_Witness ==
    /\ last.kind = "data"
    /\ state = ImportStateDML
    /\ database = <<>>
    /\ last.err = Error("database is required, make sure # CONTEXT-DATABASE: token is exist")
    /\ last.ncalls = 0
    /\ batchLPBuffer = <<>>
    /\ pc = "loop"

\* ------------------------------------------------------------- termination

\* the runs followed for termination: textual line protocol and the complete
\* CSV configuration, BatchSize 1
LiveConfigs ==
    {c \in Configs :
        /\ c.BatchSize = 1
        /\ ~c.ColumnWrite
        /\ c.Format = ImportFormatCSV => c = CSVConfig}

LiveInit == Init /\ cfg \in LiveConfigs

\* A read fails with an error other than io.EOF and goes on failing: the loop
\* logs the error and calls the reader again (`continue`), which fails again,
\* for ever.  pc = "stuck" stands for the loop turning in this way; nothing
\* else changes any more.
ReadFailsForever ==
    /\ pc = "loop"
    /\ pc' = "stuck"
    /\ last' = [NoStep EXCEPT !.kind = "readerror", !.idx = nread + 1]
    /\ UNCHANGED <<cfg, result, fsmVars, fieldsPerRecord, nread, calls, handled,
                   source>>

LiveNext == Next \/ ReadFailsForever

\* the loop body and the statements after the loop are executed as long as
\* process() has not returned: weak fairness of the driver's steps
LiveSpec == LiveInit /\ [][LiveNext]_vars /\ WF_vars(LiveNext)

\* C22: once the source is open, the end of the stream is eventually reached
\* and the final flush is invoked, also when a read fails with an error other
\* than io.EOF.
C22_EndOfStreamReached == (pc = "loop") ~> (last.kind = "eof")

\* the registry key of the pair a flush of the step being taken targets
TargetKey == database' \o <<".">> \o retentionPolicy'

\* C23: the builder registry only grows: no step removes a key or replaces a
\* registered builder; a step adds at most one key, only in a structured flush
\* and only the key database.retentionPolicy of the pair it targets; a
\* structured flush whose pair is registered creates no builder (it cannot
\* fail in NewWriteRequestBuilder); and every pair a column write was sent to
\* is registered.
C23_RegistryOnlyGrows ==
    [][/\ \A k \in DOMAIN builderEntities :
             k \in DOMAIN builderEntities' /\ builderEntities'[k] = builderEntities[k]
       /\ \A k \in DOMAIN builderEntities' \ DOMAIN builderEntities :
             /\ k = TargetKey
             /\ last'.flush # "none"
             /\ CSVRun \/ cfg.ColumnWrite
       /\ (last'.flush # "none" /\ TargetKey \in DOMAIN builderEntities) =>
             last'.err # Error("new write request builder failed")
       /\ \A k \in DOMAIN calls' :
             calls'[k].op = "column" =>
                 (calls'[k].db \o <<".">> \o calls'[k].rp) \in DOMAIN builderEntities'
      ]_vars

\* C23 witness: two structured flushes targeted db0.autogen; the registry
\* holds that one key, with the builder it was created with
C23_Witness ==
    /\ Len(calls) >= 2
    /\ \A k \in 1..2 :
          calls[k].op = "column" /\ calls[k].db = Db0 /\ calls[k].rp = Autogen
    /\ last.flush = "threshold"
    /\ DOMAIN builderEntities = {Db0 \o <<".">> \o Autogen}
    /\ builderEntities[Db0 \o <<".">> \o Autogen] = Builder(Db0, Autogen, TRUE)

\* ------------------------------------------------- runs that read one file

\* lines of a file longer than the files enumerated line by line
MaxFileLines == 2

LineCreate == <<"C","R","E","A","T","E"," ","D","A","T","A","B","A","S","E"," ","d","b","0","\n">>
LineDatabaseColon == <<"#"," ","C","O","N","T","E","X","T","-","D","A","T","A","B","A","S","E",":"," ","d","b",":","0","\n">>
LineRetentionPolicyColon == <<"#"," ","C","O","N","T","E","X","T","-","R","E","T","E","N","T","I","O","N","-","P","O","L","I","C","Y",":"," ","r","p",":","1","\n">>
DbColon == <<"d","b",":","0">>
RpColon == <<"r","p",":","1">>

FileLines == {LineDDL, LineCreate, LineDML, LineDatabase, LineDatabaseColon,
              LineRetentionPolicyColon, LinePoint}

\* a schema section, then a data section with one data line
ScenarioFile == <<LineDDL, LineCreate, LineDML, LineDatabase, LinePoint>>
\* a data section with one data line, then a schema section
DataThenSchemaFile == <<LineDML, LineDatabase, LinePoint, LineDDL, LineCreate>>

\* the file f with the newline of its last line missing
Unterminated(f) ==
    [f EXCEPT ![Len(f)] = SubSeq(f[Len(f)], 1, Len(f[Len(f)]) - 1)]

\* the files read: the two above and every file of up to MaxFileLines lines,
\* each also with its last line unterminated
Files ==
    LET whole == {ScenarioFile, DataThenSchemaFile}
                 \cup UNION {[1..n -> FileLines] : n \in 1..MaxFileLines}
    IN  whole \cup {Unterminated(f) : f \in whole}

FileConfigs ==
    [Format : {ImportFormatLineProtocol}, ColumnWrite : BOOLEAN,
     BatchSize : {1, 10}, Database : {<<>>}, RetentionPolicy : {<<>>},
     Measurement : {<<>>}, Tags : {<<>>}, Fields : {<<>>}, TimeField : {<<>>}]

FileInit ==
    /\ cfg \in FileConfigs
    /\ source \in [lines : Files, pos : {0}]
    /\ Fresh

\* scanner.ReadBytes('\n'): the bytes up to and including the next newline;
\* when the file ends before a newline, the bytes that were left (possibly
\* none) together with io.EOF
ReadBytes(src) ==
    IF src.pos >= Len(src.lines) THEN [line |-> <<>>, eof |-> TRUE]
    ELSE LET line == src.lines[src.pos + 1]
         IN  [line |-> line, eof |-> line = <<>> \/ line[Len(line)] # "\n"]

\* one turn of the loop: ReadBytes returned a line and no error
FileReadLine(o) ==
    /\ ~ReadBytes(source).eof
    /\ LineStep(ReadBytes(source).line, o)
    /\ source' = [source EXCEPT !.pos = @ + 1]

\* ReadBytes returned io.EOF: the loop breaks with whatever bytes came along
\* unused, and the final flush follows
FileReadEOF(o) ==
    /\ ReadBytes(source).eof
    /\ EOFStep(o)
    /\ source' = [source EXCEPT !.pos = Len(source.lines)]

FileNext ==
    \/ Open
    \/ \E o \in LineOutcomes : FileReadLine(o)
    \/ \E o \in ClearOutcomes : FileReadEOF(o)

FileSpec == FileInit /\ [][FileNext]_vars

\* the text after the first colon of a line, without surrounding blanks
AfterFirstColon(line) ==
    LET i == CHOOSE i \in DOMAIN line :
                 line[i] = ":" /\ \A j \in 1..(i - 1) : line[j] # ":"
        rest == SubSeq(line, i + 1, Len(line))
        blank(c) == c \in {" ", "\t", "\n", "\r"}
        first == CHOOSE a \in 1..(Len(rest) + 1) :
                     /\ \A j \in 1..(a - 1) : blank(rest[j])
                     /\ a <= Len(rest) => ~blank(rest[a])
        final == CHOOSE b \in 0..Len(rest) :
                     /\ \A j \in (b + 1)..Len(rest) : blank(rest[j])
                     /\ b >= 1 => ~blank(rest[b])
    IN  SubSeq(rest, first, final)

\* the line the step being taken hands to the FSM
LineRead == source.lines[source.pos + 1]

\* C24: in state DML a # CONTEXT-DATABASE: line sets the database, and a
\* # CONTEXT-RETENTION-POLICY: line the retention policy, to the whole text
\* after the first colon of the line, without surrounding blanks, also when
\* that text contains a colon.
C24_DirectiveValueAfterFirstColon ==
    [][(state = ImportStateDML /\ nread' = nread + 1) =>
          /\ LineRead \in {LineDatabase, LineDatabaseColon} =>
                database' = AfterFirstColon(LineRead)
          /\ LineRead = LineRetentionPolicyColon =>
                retentionPolicy' = AfterFirstColon(LineRead)]_vars


\* C25: the file  # DDL / CREATE DATABASE db0 / # DML / # CONTEXT-DATABASE: db0
\* / cpu,host=a value=1 1  (every line ended by a newline) read with BatchSize
\* 10 produces exactly one schema query, CREATE DATABASE db0, leaves the
\* database db0, and produces exactly one write call, issued by the final
\* flush and carrying exactly the one data line.
C25_Scenario ==
    (source.lines = ScenarioFile /\ cfg.BatchSize = 10) =>
        /\ last.kind # "eof" => \A k \in DOMAIN calls : calls[k].op = "query"
        /\ source.pos >= 2 /\ last.kind # "eof" =>
              calls = <<Call("query", <<>>, <<>>, TrimSpace(LineCreate), <<>>)>>
        /\ source.pos >= 4 => database = Db0
        /\ last.kind = "eof" =>
              /\ calls = <<Call("query", <<>>, <<>>, TrimSpace(LineCreate), <<>>),
                           Call("write", Db0, Autogen, TrimSpace(LinePoint),
                                <<[idx |-> 5, db |-> Db0, rp |-> Autogen]>>)>>
              /\ last.flush = "final"
              /\ last.ncalls = 1
              /\ database = Db0

C25_Witness ==
    /\ source = [lines |-> ScenarioFile, pos |-> 5]
    /\ cfg.BatchSize = 10
    /\ last.kind = "eof"
    /\ Len(calls) = 2
    /\ calls[2].op = "write"
    /\ calls[2].payload = TrimSpace(LinePoint)
    /\ pc = "done"


\* what a unit that is not a data unit leaves alone whatever its kind
NoEffect ==
    /\ calls' = calls
    /\ last'.err = Nil
    /\ pc' = "loop"
    /\ UNCHANGED <<state, batchLPBuffer, batchPointBuffer, builderEntities>>

\* C26: in state DML a line that starts with # without being a marker or a
\* directive, and a blank line, change neither the state, the database, the
\* retention policy, the buffers nor the registry, and issue no call; a
\* database directive changes the database only, a retention-policy directive
\* the retention policy only.
C26_CommentsBlanksDirectives ==
    [][(state = ImportStateDML /\ nread' = nread + 1) =>
          /\ \A line \in {LineComment, LineBlank} :
                ReadLine(line, AllGood) =>
                    NoEffect /\ UNCHANGED <<database, retentionPolicy>>
          /\ ReadLine(LineDatabase, AllGood) =>
                NoEffect /\ database' = Db0 /\ UNCHANGED retentionPolicy
          /\ ReadLine(LineDatabaseEmpty, AllGood) =>
                NoEffect /\ database' = <<>> /\ UNCHANGED retentionPolicy
          /\ ReadLine(LineRetentionPolicy, AllGood) =>
                NoEffect /\ retentionPolicy' = Rp1 /\ UNCHANGED database]_vars

C26_Witness ==
    /\ last.kind = "comment"
    /\ state = ImportStateDML
    /\ database = Db0
    /\ retentionPolicy = Autogen
    /\ Len(batchLPBuffer) = 1
    /\ calls = <<>>


\* C27: the state is ImportStateDDL or ImportStateDML and starts as
\* ImportStateDDL.  In a line-protocol run it changes only in a step that
\* reads a line beginning with # DDL or # DML; in a CSV run it changes only
\* from ImportStateDDL to ImportStateDML, in the step that reads the first
\* row, and every row leaves ImportStateDML.  No other step (data unit,
\* directive, comment, failed read, flush) changes it.
C27_StateChanges ==
    [][/\ state \in {ImportStateDDL, ImportStateDML}
       /\ state' \in {ImportStateDDL, ImportStateDML}
       /\ pc = "start" => state = ImportStateDDL
       /\ state' # state =>
             IF cfg.Format = ImportFormatLineProtocol
               THEN \E line \in {LineDDL, LineDML} : ReadLine(line, AllGood)
               ELSE /\ cfg.Format = ImportFormatCSV
                    /\ state = ImportStateDDL
                    /\ state' = ImportStateDML
                    /\ last'.kind = "header"
       /\ (cfg.Format = ImportFormatCSV /\ nread' = nread + 1
             /\ last'.kind # "readerror") =>
             /\ state' = ImportStateDML
             /\ last'.kind = "header" <=> state = ImportStateDDL]_vars

C27_Witness ==
    /\ cfg.Format = ImportFormatCSV
    /\ last.kind = "row"
    /\ last.err = Nil
    /\ state = ImportStateDML
    /\ nread = 3


\* C28: in a line-protocol run every line of the file has been passed to the
\* FSM, once and in the order of the file, when the final flush runs, also
\* when the last line does not end with a newline.
C28_EveryLinePassedToFSM ==
    last.kind = "eof" =>
        /\ nread = Len(source.lines)
        /\ source.pos = Len(source.lines)

\* the part of it that holds: the lines that end with a newline are passed to
\* the FSM one by one in the order of the file
C28_TerminatedLinesPassed ==
    /\ last.kind # "eof" => nread = source.pos
    /\ last.kind = "eof" =>
          nread = Cardinality({i \in DOMAIN source.lines :
                                  ReadBytes([source EXCEPT !.pos = i - 1]).eof = FALSE})


\* C29: in a line-protocol run a schema command is executed only when every
\* data line that precedes it in the file has been written: at the step that
\* sends the query no earlier data line is still in the buffer.
C29_DataWrittenBeforeLaterSchema ==
    [][(Len(calls') > Len(calls) /\ calls'[Len(calls')].op = "query") =>
          batchLPBuffer = <<>>]_vars


IsWrite(call) == call.op \in {"write", "column"}

\* C30: no write call, textual or structured, is issued with an empty batch,
\* whatever BatchSize >= 0 is configured and whatever is read.
C30_NoEmptyWrite ==
    \A k \in DOMAIN calls :
        IsWrite(calls[k]) => calls[k].items # <<>> /\ calls[k].payload # <<>>

\* the part of it that holds: with BatchSize >= 1 only a final flush whose
\* request could not be built sends a write that carries nothing
C30_NoEmptyWriteForPositiveBatchSize ==
    [][cfg.BatchSize >= 1 =>
          \A k \in (Len(calls) + 1)..Len(calls') :
              IsWrite(calls'[k]) /\ (calls'[k].items = <<>> \/ calls'[k].payload = <<>>)
                  => last'.kind = "eof" /\ calls'[k].op = "column"]_vars


\* the final flush sent a column write that came back with an error and no
\* response
FinalColumnWriteFailed ==
    /\ last.kind = "eof"
    /\ last.res # <<>>
    /\ last.res[Len(last.res)] = "err"
    /\ calls # <<>>
    /\ calls[Len(calls)].op = "column"

\* C31: the final flush never panics on the structured path; when its column
\* write returns an error and no response, the FSMCall returns an error and
\* the response code is not read.
C31_FinalStructuredFlushNeverCrashes ==
    FinalColumnWriteFailed => (pc # "crashed" /\ last.err # Nil)

\* the part of it that holds: the final flush ends without a panic when the
\* builder is valid, the record builder is created and the write is answered
C31_FinalFlushEndsWhenAnswered ==
    [][\A o \in ClearOutcomes :
          (ReadEOF(o) /\ pc' = "crashed") =>
              /\ batchPointBuffer # <<>>
              /\ \/ ~o.rb
                 \/ o.write = "err"
                 \/ \E n \in DOMAIN builderEntities' : ~builderEntities'[n].valid]_vars


\* C32: every builder in the registry was created successfully; a flush whose
\* NewWriteRequestBuilder fails returns that error and registers nothing under
\* the key, in the threshold flush and in the final flush alike.
C32_RegisteredBuildersAreValid ==
    \A n \in DOMAIN builderEntities : builderEntities[n].valid

\* the part of it that holds: no step other than the final flush registers a
\* builder that was not created, and a threshold flush whose creation fails
\* returns the error and leaves the registry as it is
C32_ThresholdFlushRegistersValid ==
    [][last'.kind # "eof" =>
          /\ \A n \in DOMAIN builderEntities' \ DOMAIN builderEntities :
                builderEntities'[n].valid
          /\ last'.err = Error("new write request builder failed") =>
                builderEntities' = builderEntities /\ calls' = calls]_vars


\* C33: in a line-protocol run, whatever BatchSize >= 0 is configured, the
\* text-line buffer never holds more than BatchSize lines.
C33_BufferBoundedByBatchSize ==
    LineProtocolRun => Len(batchLPBuffer) <= cfg.BatchSize

C33_Witness ==
    /\ LineProtocolRun
    /\ cfg.BatchSize = MaxBatch
    /\ Len(batchLPBuffer) = cfg.BatchSize
    /\ last.kind = "data"
    /\ last.err = Nil
    /\ pc = "loop"

====
